---- MODULE Spec2Model ----
(***************************************************************************)
(* EchoVerse (app.py): the narration pipeline behind the "Generate         *)
(* Audiobook" button, the per-session history list, the cached rewriting   *)
(* model and the rendering of the latest narration with its download.      *)
(*                                                                         *)
(* Every browser session runs the script in its own thread; a script run   *)
(* blocks at the model load, at the rewriter call and at the gTTS call, so *)
(* those are the points where runs of different sessions interleave.       *)
(* Texts and byte streams are sequences (of Unicode code points, of        *)
(* byte values); the enumerated tone and accent labels are strings.        *)
(***************************************************************************)
EXTENDS Naturals, Sequences, FiniteSets

VARIABLES
    history,          \* st.session_state.history, per session
    pc,               \* where each session's script run is blocked
    text_input,       \* the run's text_input
    selected_tone,    \* the run's selected_tone
    selected_accent,  \* the run's selected_accent
    prompt,           \* the prompt built by rewrite_text_with_tone
    rewritten_text,   \* the run's rewritten_text
    tts,              \* the arguments of the run's gTTS(...) call
    reply,            \* what the service the run is blocked on answered
    page,             \* what the last finished script run rendered
    model_cache,      \* st.cache_resource holds the loaded pipeline
    loads,            \* executions of load_rewriting_model's body that returned
    runs,             \* "Generate Audiobook" clicks so far
    completed         \* per session, the records of its successful runs, oldest first

vars == <<history, pc, text_input, selected_tone, selected_accent, prompt,
          rewritten_text, tts, reply, page, model_cache, loads, runs, completed>>

----------------------------------------------------------------------------
(* Bounds and input domains *)

MaxRuns == 2

Sessions == {"s1", "s2"}

Tones == {"Neutral", "Suspenseful", "Inspiring"}

Accents == {"US English", "UK English", "Australian English"}

\* the code points str.strip() removes (those for which str.isspace() holds):
\* tab, LF, VT, FF, CR, the separators 0x1c-0x1f, space, NEL, NBSP, the ogham
\* space, U+2000 - U+200A, the line and paragraph separators, the narrow
\* no-break space, the medium mathematical space and the ideographic space
Whitespace ==
    {9, 10, 11, 12, 13, 28, 29, 30, 31, 32, 133, 160, 5760}
        \cup (8192..8202) \cup {8232, 8233, 8239, 8287, 12288}

\* texts a user can submit: "", "\t\xa0" (whitespace only), " a" (padded)
Texts == {<< >>, <<9, 160>>, <<32, 97>>}

\* texts the rewriting model can generate, before .strip(): "", "\r\u2003"
\* (whitespace only), "r\f" (padded)
Generated == {<< >>, <<13, 8195>>, <<114, 12>>}

\* what tts.write_to_fp can leave in the buffer
AudioStreams == {<< >>, <<73, 68, 51>>}

----------------------------------------------------------------------------
(* Python values *)

None == [some |-> FALSE, val |-> << >>]

Some(v) == [some |-> TRUE, val |-> v]

\* slip: tests "is not None" where the code tests truthiness
Truthy_NotNone(x) == x.some

\* Python truthiness of None / str / bytes
Truthy(x) == x.some /\ x.val # << >>

RECURSIVE lstrip(_)
lstrip(t) ==
    IF t = << >> THEN << >>
    ELSE IF Head(t) \in Whitespace THEN lstrip(Tail(t)) ELSE t

RECURSIVE rstrip(_)
rstrip(t) ==
    IF t = << >> THEN << >>
    ELSE IF t[Len(t)] \in Whitespace THEN rstrip(SubSeq(t, 1, Len(t) - 1)) ELSE t

\* str.strip()
strip(t) == rstrip(lstrip(t))

\* not text_input.strip()
\* slip: tests the raw text
IsBlankInput_Raw(text) == text = << >>

IsBlankInput(text) == strip(text) = << >>

\* str.lower() on the labels of the tone selectbox
lower(tone) ==
    CASE tone = "Neutral"     -> "neutral"
      [] tone = "Suspenseful" -> "suspenseful"
      [] tone = "Inspiring"   -> "inspiring"

\* f"Rewrite the following text in a {tone.lower()} tone: {text}": the
\* instruction, followed by the text
BuildPrompt(text, tone) ==
    [instruction |-> "Rewrite the following text in a " \o lower(tone) \o " tone: ",
     text        |-> text]

NoPrompt == [instruction |-> "", text |-> << >>]

\* slip: the UK and Australian codes exchanged
tld_map_Swapped ==
    [a \in Accents |->
        CASE a = "US English"         -> "com"
          [] a = "UK English"         -> "com.au"
          [] a = "Australian English" -> "co.uk"]

tld_map ==
    [a \in Accents |->
        CASE a = "US English"         -> "com"
          [] a = "UK English"         -> "co.uk"
          [] a = "Australian English" -> "com.au"]

\* gTTS(text=text, lang='en', tld=tld_map[accent], slow=False)
gTTS(text, accent) ==
    [text |-> text, lang |-> "en", tld |-> tld_map[accent], slow |-> FALSE]

NoTts == [text |-> << >>, lang |-> "", tld |-> "", slow |-> FALSE]

----------------------------------------------------------------------------
(* Records, history and rendering *)

\* slip: the trimmed text is stored as the original
NarrationRecord_Trimmed(original, rewritten, tone, accent, audio) ==
    [original |-> strip(original), rewritten |-> rewritten, tone |-> tone,
     accent |-> accent, audio |-> audio]

\* the dict inserted into the history
NarrationRecord(original, rewritten, tone, accent, audio) ==
    [original |-> original, rewritten |-> rewritten, tone |-> tone,
     accent |-> accent, audio |-> audio]

\* slip: list.append(record)
insert0_Append(h, record) == Append(h, record)

\* list.insert(0, record)
insert0(h, record) == <<record>> \o h

\* f"EchoVerse_{latest['tone']}_{latest['accent']}.mp3"
file_name(latest) ==
    "EchoVerse_" \o latest.tone \o "_" \o latest.accent \o ".mp3"

NoDownload == [shown |-> FALSE, data |-> << >>, file_name |-> ""]

\* the st.download_button of the "latest narration" section
download_button(h) ==
    IF h # << >>
    THEN [shown |-> TRUE, data |-> h[1].audio, file_name |-> file_name(h[1])]
    ELSE NoDownload

NoMessage == [kind |-> "none", text |-> ""]

EmptyInputWarning ==
    [kind |-> "warning", text |-> "Please provide some text to generate the audiobook."]

RewriteError == [kind |-> "error", text |-> "Error during tone rewriting"]

AudioError == [kind |-> "error", text |-> "Error during audio generation"]

Success == [kind |-> "success", text |-> "Audiobook generated successfully!"]

\* what a script run that reaches its end leaves on the page: the Generate
\* button, its notice and the download
Render(msg, h) ==
    [message |-> msg, download |-> download_button(h), button |-> TRUE,
     exception |-> ""]

\* what a script run that dies at uploaded_file.getvalue().decode("utf-8")
\* leaves on the page: the uncaught exception, and nothing of what follows
\* line 97 (no Generate button, no notice, no latest narration)
Died ==
    [message |-> NoMessage, download |-> NoDownload, button |-> FALSE,
     exception |-> "UnicodeDecodeError"]

----------------------------------------------------------------------------
(* What the two external services can answer *)

Raised == [raised |-> TRUE, val |-> << >>]

Returned(v) == [raised |-> FALSE, val |-> v]

NoReply == [raised |-> FALSE, val |-> << >>]

RewriterOutcomes == {Raised} \cup {Returned(g) : g \in Generated}

TtsOutcomes == {Raised} \cup {Returned(a) : a \in AudioStreams}

\* slip: the generated text is returned without .strip()
rewrite_text_with_tone_NoStrip(out) ==
    IF out.raised THEN None ELSE Some(out.val)

\* value returned by rewrite_text_with_tone for a rewriter outcome
rewrite_text_with_tone(out) ==
    IF out.raised THEN None ELSE Some(strip(out.val))

\* value returned by convert_text_to_speech for a gTTS outcome
convert_text_to_speech(out) ==
    IF out.raised THEN None ELSE Some(out.val)

----------------------------------------------------------------------------
(* State machine *)

Init ==
    /\ history = [s \in Sessions |-> << >>]
    /\ pc = [s \in Sessions |-> "idle"]
    /\ text_input = [s \in Sessions |-> << >>]
    /\ selected_tone = [s \in Sessions |-> "Neutral"]
    /\ selected_accent = [s \in Sessions |-> "US English"]
    /\ prompt = [s \in Sessions |-> NoPrompt]
    /\ rewritten_text = [s \in Sessions |-> None]
    /\ tts = [s \in Sessions |-> NoTts]
    /\ reply = [s \in Sessions |-> NoReply]
    /\ page = [s \in Sessions |-> Render(NoMessage, << >>)]
    /\ model_cache = FALSE
    /\ loads = 0
    /\ runs = 0
    /\ completed = [s \in Sessions |-> << >>]

\* the script run of session s ends: its locals are gone, the page shows
\* msg and the latest narration of history h
EndRun(s, msg, h) ==
    /\ pc' = [pc EXCEPT ![s] = "idle"]
    /\ history' = [history EXCEPT ![s] = h]
    /\ page' = [page EXCEPT ![s] = Render(msg, h)]
    /\ text_input' = [text_input EXCEPT ![s] = << >>]
    /\ selected_tone' = [selected_tone EXCEPT ![s] = "Neutral"]
    /\ selected_accent' = [selected_accent EXCEPT ![s] = "US English"]
    /\ prompt' = [prompt EXCEPT ![s] = NoPrompt]
    /\ rewritten_text' = [rewritten_text EXCEPT ![s] = None]
    /\ tts' = [tts EXCEPT ![s] = NoTts]
    /\ reply' = [reply EXCEPT ![s] = NoReply]

\* "Generate Audiobook" is clicked: the script reruns with the form's
\* text, tone and accent and st.button(...) true
Generate(s) ==
    /\ pc[s] = "idle"
    /\ page[s].button
    /\ runs < MaxRuns
    /\ runs' = runs + 1
    /\ \E text \in Texts, tone \in Tones, accent \in Accents :
        /\ text_input' = [text_input EXCEPT ![s] = text]
        /\ selected_tone' = [selected_tone EXCEPT ![s] = tone]
        /\ selected_accent' = [selected_accent EXCEPT ![s] = accent]
    /\ pc' = [pc EXCEPT ![s] = "validating"]
    /\ UNCHANGED <<history, prompt, rewritten_text, tts, reply, page,
                   model_cache, loads, completed>>

\* if not text_input.strip(): warning; else rewrite_text_with_tone starts
\* and builds its prompt
Validate(s) ==
    /\ pc[s] = "validating"
    /\ UNCHANGED <<runs, model_cache, loads, completed>>
    /\ IF IsBlankInput(text_input[s])
       THEN EndRun(s, EmptyInputWarning, history[s])
       ELSE /\ pc' = [pc EXCEPT ![s] = "loading"]
            /\ prompt' = [prompt EXCEPT ![s] =
                              BuildPrompt(text_input[s], selected_tone[s])]
            /\ UNCHANGED <<history, text_input, selected_tone, selected_accent,
                           rewritten_text, tts, reply, page>>

\* slip: no @st.cache_resource, the body runs on every call
load_rewriting_model_Uncached(s) ==
    /\ pc[s] = "loading"
    /\ UNCHANGED <<runs, completed>>
    /\ \E loaded \in BOOLEAN :
        IF loaded
        THEN /\ model_cache' = TRUE
             /\ loads' = loads + 1
             /\ pc' = [pc EXCEPT ![s] = "rewriting"]
             /\ UNCHANGED <<history, text_input, selected_tone, selected_accent,
                            prompt, rewritten_text, tts, reply, page>>
        ELSE /\ EndRun(s, RewriteError, history[s])
             /\ UNCHANGED <<model_cache, loads>>

\* load_rewriting_model() under st.cache_resource: a cached pipeline is
\* returned as is; otherwise the body runs, and its result is cached only
\* when it returns (an exception is caught by rewrite_text_with_tone).
\* With the pipeline in hand the rewriter is called with the prompt.
load_rewriting_model(s) ==
    /\ pc[s] = "loading"
    /\ UNCHANGED <<runs, completed>>
    /\ IF model_cache
       THEN /\ pc' = [pc EXCEPT ![s] = "rewriting"]
            /\ UNCHANGED <<model_cache, loads, history, text_input, selected_tone,
                           selected_accent, prompt, rewritten_text, tts, reply, page>>
       ELSE \E loaded \in BOOLEAN :
            IF loaded
            THEN /\ model_cache' = TRUE
                 /\ loads' = loads + 1
                 /\ pc' = [pc EXCEPT ![s] = "rewriting"]
                 /\ UNCHANGED <<history, text_input, selected_tone, selected_accent,
                                prompt, rewritten_text, tts, reply, page>>
            ELSE /\ EndRun(s, RewriteError, history[s])
                 /\ UNCHANGED <<model_cache, loads>>

\* the text2text-generation pipeline answers the call, or raises
rewriter(s) ==
    /\ pc[s] = "rewriting"
    /\ \E out \in RewriterOutcomes : reply' = [reply EXCEPT ![s] = out]
    /\ pc' = [pc EXCEPT ![s] = "rewritten"]
    /\ UNCHANGED <<history, text_input, selected_tone, selected_accent, prompt,
                   rewritten_text, tts, page, model_cache, loads, runs, completed>>

\* rewrite_text_with_tone returns; if rewritten_text: convert_text_to_speech
\* starts and hands the text and the accent's tld to gTTS
Rewritten(s) ==
    /\ pc[s] = "rewritten"
    /\ UNCHANGED <<runs, model_cache, loads, completed>>
    /\ LET result == rewrite_text_with_tone(reply[s]) IN
       IF Truthy(result)
       THEN /\ rewritten_text' = [rewritten_text EXCEPT ![s] = result]
            /\ tts' = [tts EXCEPT ![s] = gTTS(result.val, selected_accent[s])]
            /\ reply' = [reply EXCEPT ![s] = NoReply]
            /\ pc' = [pc EXCEPT ![s] = "synthesizing"]
            /\ UNCHANGED <<history, text_input, selected_tone, selected_accent,
                           prompt, page>>
       ELSE EndRun(s, IF reply[s].raised THEN RewriteError ELSE NoMessage,
                   history[s])

\* gTTS fills the buffer with the audio stream, or raises
write_to_fp(s) ==
    /\ pc[s] = "synthesizing"
    /\ \E out \in TtsOutcomes : reply' = [reply EXCEPT ![s] = out]
    /\ pc' = [pc EXCEPT ![s] = "synthesized"]
    /\ UNCHANGED <<history, text_input, selected_tone, selected_accent, prompt,
                   rewritten_text, tts, page, model_cache, loads, runs, completed>>

\* convert_text_to_speech returns; if audio_data: success and the record is
\* inserted at the head of the history; the rest of the script renders
Synthesized(s) ==
    /\ pc[s] = "synthesized"
    /\ UNCHANGED <<runs, model_cache, loads>>
    /\ LET audio_data == convert_text_to_speech(reply[s])
           record == NarrationRecord(text_input[s], rewritten_text[s].val,
                                     selected_tone[s], selected_accent[s],
                                     audio_data.val)
       IN
       IF Truthy(audio_data)
       THEN /\ EndRun(s, Success, insert0(history[s], record))
            /\ completed' = [completed EXCEPT ![s] = Append(@, record)]
       ELSE /\ EndRun(s, IF reply[s].raised THEN AudioError ELSE NoMessage,
                      history[s])
            /\ UNCHANGED completed

\* any other interaction reruns the script with the button not pressed
\* (and, with "Upload .txt File", a file that decodes or none)
Rerun(s) ==
    /\ pc[s] = "idle"
    /\ UNCHANGED <<runs, model_cache, loads, completed>>
    /\ EndRun(s, NoMessage, history[s])

\* a file that is not UTF-8 is uploaded: the rerun raises UnicodeDecodeError
\* at line 97, nothing catches it and the script run stops there
UploadUndecodable(s) ==
    /\ pc[s] = "idle"
    /\ page' = [page EXCEPT ![s] = Died]
    /\ UNCHANGED <<history, pc, text_input, selected_tone, selected_accent, prompt,
                   rewritten_text, tts, reply, model_cache, loads, runs, completed>>

Next ==
    \E s \in Sessions :
        \/ Generate(s)
        \/ Validate(s)
        \/ load_rewriting_model(s)
        \/ rewriter(s)
        \/ Rewritten(s)
        \/ write_to_fp(s)
        \/ Synthesized(s)
        \/ Rerun(s)
        \/ UploadUndecodable(s)

Spec == Init /\ [][Next]_vars

TypeOK ==
    /\ \A s \in Sessions :
        pc[s] \in {"idle", "validating", "loading", "rewriting", "rewritten",
                   "synthesizing", "synthesized"}
    /\ runs \in 0..MaxRuns
    /\ model_cache \in BOOLEAN

----------------------------------------------------------------------------
(* Vocabulary of the properties *)

\* t holds nothing but whitespace
Blank(t) == \A i \in 1..Len(t) : t[i] \in Whitespace

\* the answer of a service is a usable one: it returned, and not nothing
RewriterSucceeded(out) == ~out.raised /\ ~Blank(out.val)

TtsSucceeded(out) == ~out.raised /\ out.val # << >>

\* the record a run of session s is expected to leave, from its own locals
\* and the audio the synthesis service returned
RunRecord(s) ==
    [original  |-> text_input[s],
     rewritten |-> rewritten_text[s].val,
     tone      |-> selected_tone[s],
     accent    |-> selected_accent[s],
     audio     |-> reply[s].val]

----------------------------------------------------------------------------
(* C1 *)

\* C1: a run whose input is not blank and in which both services succeed
\* goes through every stage, and its last step grows the history by exactly
\* one record, at index 0 (1 here), made of the run's original text,
\* rewritten text, tone, accent and audio bytes; the older records follow.
C1_SuccessPrependsOneRecord ==
    [][\A s \in Sessions :
        /\ (pc[s] = "validating" /\ ~Blank(text_input[s]) /\ pc'[s] # pc[s])
              => pc'[s] = "loading"
        /\ (pc[s] = "rewritten" /\ RewriterSucceeded(reply[s]) /\ pc'[s] # pc[s])
              => pc'[s] = "synthesizing"
        /\ (pc[s] = "synthesized" /\ TtsSucceeded(reply[s]) /\ pc'[s] # pc[s])
              => /\ pc'[s] = "idle"
                 /\ Len(history'[s]) = Len(history[s]) + 1
                 /\ history'[s][1] = RunRecord(s)
                 /\ Tail(history'[s]) = history[s]
                 /\ page'[s].message = Success
      ]_vars

\* a second successful run of a session, for a padded text, has put its
\* record (with the text as typed) in front of the first one
C1_Witness ==
    \E s \in Sessions :
        /\ page[s].message = Success
        /\ Len(history[s]) = 2
        /\ history[s][1] = [original |-> <<32, 97>>, rewritten |-> <<114>>,
                            tone |-> "Inspiring", accent |-> "Australian English",
                            audio |-> <<73, 68, 51>>]
        /\ history[s][2].tone = "Neutral"

----------------------------------------------------------------------------
(* C2 *)

\* C2: a run whose input is empty or only whitespace, whatever the tone
\* and accent, ends at validation: the history is unchanged, no prompt is
\* built, the model is not loaded, neither service is called and the page
\* shows the warning.
C2_BlankInputAborts ==
    [][\A s \in Sessions :
        (pc[s] = "validating" /\ Blank(text_input[s]) /\ pc'[s] # pc[s])
           => /\ pc'[s] = "idle"
              /\ history' = history
              /\ prompt'[s] = NoPrompt
              /\ tts'[s] = NoTts
              /\ model_cache' = model_cache
              /\ loads' = loads
              /\ page'[s].message = EmptyInputWarning
      ]_vars

\* a session with a narration has been warned about a blank input
C2_Witness ==
    \E s \in Sessions :
        /\ page[s].message = EmptyInputWarning
        /\ pc[s] = "idle"
        /\ history[s] # << >>

----------------------------------------------------------------------------
(* C3 *)

\* C3: gTTS is called only by a run whose rewriter call has returned text
\* that is usable, and with that text in hand; a run whose model load or
\* rewriter call raised, or whose rewriter returned nothing usable, ends
\* there with the history unchanged and without a gTTS call.
C3_SynthesisOnlyAfterRewrite ==
    /\ [](\A s \in Sessions :
            pc[s] \in {"synthesizing", "synthesized"}
               => /\ rewritten_text[s].some
                  /\ rewritten_text[s].val # << >>
                  /\ ~Blank(rewritten_text[s].val))
    /\ [][\A s \in Sessions :
            /\ (pc'[s] = "synthesizing" /\ pc[s] # "synthesizing")
                  => pc[s] = "rewritten" /\ RewriterSucceeded(reply[s])
            /\ (pc[s] = "rewritten" /\ ~RewriterSucceeded(reply[s]) /\ pc'[s] # pc[s])
                  => pc'[s] = "idle" /\ tts'[s] = NoTts /\ history' = history
            /\ (pc[s] = "loading" /\ pc'[s] \notin {"loading", "rewriting"})
                  => pc'[s] = "idle" /\ tts'[s] = NoTts /\ history' = history
         ]_vars

\* the rewriter has answered a run with whitespace only
C3_Witness ==
    \E s \in Sessions :
        /\ pc[s] = "rewritten"
        /\ reply[s] = Returned(<<13, 8195>>)
        /\ tts[s] = NoTts

----------------------------------------------------------------------------
(* C4 *)

\* C4, as stated: when the rewrite succeeded and the synthesis failed
\* (raised, or returned no audio), the history after the run is the history
\* before it and the run's rewritten text appears in no history record.
C4_AsStated ==
    [][\A s \in Sessions :
        (pc[s] = "synthesized" /\ ~TtsSucceeded(reply[s]) /\ pc'[s] # pc[s])
           => /\ history' = history
              /\ \A i \in 1..Len(history'[s]) :
                    history'[s][i].rewritten # rewritten_text[s].val
      ]_vars

\* C4, amended: when the rewrite succeeded and the synthesis failed (raised,
\* or returned no audio), the run adds no record: every history after the
\* run is the history before it, the run ends idle and reports no success.
C4_SynthesisFailureAddsNothing ==
    [][\A s \in Sessions :
        (pc[s] = "synthesized" /\ ~TtsSucceeded(reply[s]) /\ pc'[s] # pc[s])
           => /\ pc'[s] = "idle"
              /\ history' = history
              /\ completed' = completed
              /\ page'[s].message # Success
      ]_vars

\* gTTS has returned an empty stream to a run that holds a rewritten text,
\* in a session that already has a narration
C4_Witness ==
    \E s \in Sessions :
        /\ pc[s] = "synthesized"
        /\ reply[s] = Returned(<< >>)
        /\ rewritten_text[s] = Some(<<114>>)
        /\ history[s] # << >>

----------------------------------------------------------------------------
(* C5 *)

\* C5: the history of a session holds exactly the records of its successful
\* runs, the most recent first (history[1] is the latest of N, history[N]
\* the first), and a step either leaves a history as it is or puts one
\* record in front of it: nothing is removed, reordered or modified.
C5_HistoryIsStack ==
    /\ [](\A s \in Sessions :
            /\ Len(history[s]) = Len(completed[s])
            /\ \A i \in 1..Len(history[s]) :
                  history[s][i] = completed[s][Len(completed[s]) + 1 - i])
    /\ [][\A s \in Sessions :
            \/ history'[s] = history[s]
            \/ /\ Len(history'[s]) = Len(history[s]) + 1
               /\ Tail(history'[s]) = history[s]
         ]_vars

\* two successful runs of one session with different records: the second
\* run's record is first, the first run's record last
C5_Witness ==
    \E s \in Sessions :
        /\ Len(history[s]) = 2
        /\ history[s][1] # history[s][2]
        /\ history[s][1] = completed[s][2]
        /\ history[s][2] = completed[s][1]

----------------------------------------------------------------------------
(* C6 *)

\* C6: every record of every history is complete: exactly the five fields,
\* an original text that is not blank, a rewritten text and audio bytes that
\* are not empty, a tone and an accent of the two selectboxes.
C6_RecordsComplete ==
    \A s \in Sessions : \A i \in 1..Len(history[s]) :
        LET r == history[s][i] IN
        /\ DOMAIN r = {"original", "rewritten", "tone", "accent", "audio"}
        /\ ~Blank(r.original)
        /\ r.rewritten # << >>
        /\ ~Blank(r.rewritten)
        /\ r.audio # << >>
        /\ r.tone \in {"Neutral", "Suspenseful", "Inspiring"}
        /\ r.accent \in {"US English", "UK English", "Australian English"}

\* both sessions hold a record, one of them for the padded text
C6_Witness ==
    /\ \A s \in Sessions : Len(history[s]) = 1
    /\ \E s \in Sessions : history[s][1].original = <<32, 97>>

----------------------------------------------------------------------------
(* C7 *)

\* C7: every run that ends without creating a record leaves a notice on
\* the page: the warning for a blank input, the rewriting error when the
\* model load or the rewriter raised or the rewriter returned nothing
\* usable, the audio error when gTTS raised or returned no audio.
C7_EveryAbortIsReported ==
    [][\A s \in Sessions :
        (pc[s] # "idle" /\ pc'[s] = "idle" /\ history'[s] = history[s])
           => /\ pc[s] = "validating" => page'[s].message = EmptyInputWarning
              /\ pc[s] \in {"loading", "rewritten"} => page'[s].message = RewriteError
              /\ pc[s] = "synthesized" => page'[s].message = AudioError
      ]_vars

----------------------------------------------------------------------------
(* C8 *)

\* C8, as stated: whenever a history is not empty the page offers the download of its
\* head record: the data are the head's audio bytes and the file name is
\* EchoVerse_<head tone>_<head accent>.mp3, whatever a run in progress has
\* selected and whatever notice a later run left.
C8_DownloadIsHead ==
    \A s \in Sessions :
        history[s] # << >> =>
            LET head == history[s][1] IN
            /\ page[s].download.shown
            /\ page[s].download.data = head.audio
            /\ page[s].download.file_name
                  = "EchoVerse_" \o head.tone \o "_" \o head.accent \o ".mp3"
            /\ (head.tone = "Suspenseful" /\ head.accent = "UK English")
                  => page[s].download.file_name = "EchoVerse_Suspenseful_UK English.mp3"

----------------------------------------------------------------------------
(* C9 *)

\* C9: while the rewriter is called, the prompt holds the lower-cased tone
\* and the original text; while gTTS is called, its text is the run's
\* rewritten text, its language English at normal speed, and its tld the
\* one of the table: US English com, UK English co.uk, Australian com.au.
C9_AdapterArguments ==
    \A s \in Sessions :
        /\ pc[s] \in {"rewriting", "rewritten"} =>
              /\ prompt[s].text = text_input[s]
              /\ selected_tone[s] = "Neutral" => prompt[s].instruction
                    = "Rewrite the following text in a neutral tone: "
              /\ selected_tone[s] = "Suspenseful" => prompt[s].instruction
                    = "Rewrite the following text in a suspenseful tone: "
              /\ selected_tone[s] = "Inspiring" => prompt[s].instruction
                    = "Rewrite the following text in a inspiring tone: "
        /\ pc[s] \in {"synthesizing", "synthesized"} =>
              /\ tts[s].text = rewritten_text[s].val
              /\ tts[s].lang = "en"
              /\ tts[s].slow = FALSE
              /\ selected_accent[s] = "US English" => tts[s].tld = "com"
              /\ selected_accent[s] = "UK English" => tts[s].tld = "co.uk"
              /\ selected_accent[s] = "Australian English" => tts[s].tld = "com.au"

\* one session is in the rewriter with a Suspenseful prompt while the other
\* is in gTTS with the rewritten text and the UK tld
C9_Witness ==
    \E s, t \in Sessions :
        /\ pc[s] = "rewriting"
        /\ prompt[s] = [instruction |-> "Rewrite the following text in a suspenseful tone: ",
                        text |-> <<32, 97>>]
        /\ pc[t] = "synthesizing"
        /\ tts[t] = [text |-> <<114>>, lang |-> "en", tld |-> "co.uk", slow |-> FALSE]
        /\ text_input[t] # tts[t].text

----------------------------------------------------------------------------
(* C10 *)

\* C10, as stated: the model is loaded exactly once, by the first request
\* that reaches the rewriting step: once a request has gone through the
\* load, the number of loads is one.
C10_AsStated ==
    [][\A s \in Sessions :
        (pc[s] = "loading" /\ pc'[s] # pc[s]) => loads' = 1
      ]_vars

\* C10, amended: the model is loaded at most once per process, by the first
\* request, of any session, whose load at the rewriting step succeeds; a
\* load that raises caches nothing and ends that run, and the next request
\* loads again; a request that fails validation never loads; every rewriter
\* call is made with the model loaded, and once it is loaded no request
\* loads again.
C10_LoadedAtMostOnce ==
    /\ [](/\ loads <= 1
          /\ model_cache <=> loads = 1
          /\ \A s \in Sessions :
                pc[s] \in {"rewriting", "rewritten"} => model_cache /\ loads = 1)
    /\ [][/\ model_cache => (model_cache' /\ loads' = loads)
          /\ loads' # loads =>
                \E s \in Sessions :
                    /\ pc[s] = "loading" /\ pc'[s] = "rewriting"
                    /\ ~model_cache /\ loads' = loads + 1
          /\ \A s \in Sessions :
                (pc[s] = "validating" /\ pc'[s] # pc[s]) => loads' = loads
         ]_vars

\* both sessions are in the rewriter at once, with a single load
C10_Witness ==
    /\ \A s \in Sessions : pc[s] = "rewriting"
    /\ loads = 1
    /\ model_cache
    /\ runs = 2

====
